---------------------------- MODULE Spec2Model ----------------------------
(***************************************************************************)
(* Model of the horizon uncertainty viewer:                                *)
(*   - plot_well_zonelog, the zonelog alignment (SpecZonelog);             *)
(*   - the surface file getters of parse_model_file (SpecFiles);           *)
(*   - HorizonUncertaintyViewer.__init__ (SpecInit);                       *)
(*   - the cross-section callback _render_surface, one invocation after    *)
(*     the other (Spec) and statement by statement on several server       *)
(*     threads (SpecThreads).                                              *)
(* Indices of numpy arrays are kept 0-based, as numpy returns them; the    *)
(* sequences that hold the arrays are 1-based, so array element i is       *)
(* s[i + 1].                                                               *)
(***************************************************************************)
EXTENDS Integers, Sequences, FiniteSets, TLC

VARIABLES
    \* plot_well_zonelog: the arguments of the call, its locals, its result
    zl_args, zvals, hvals, zonevals, zomin, zomax, zoneplot, zl_pc,
    \* parse_model_file: the <surface> elements of model_file.xml, the files
    \* that exist under output/surfaces, the last getter called and its result
    model_file, fs, files_ret,
    \* HorizonUncertaintyViewer.__init__: its arguments, and the instance it
    \* leaves or the exception it raises
    init_args, plugin,
    \* The running application: the values of the four inputs of
    \* _render_surface in the browser, the state of self.xsec, the figure
    \* last returned, and the record of the last invocation
    wellpath, surfacepaths, errorpaths, coords,
    fence, surface_lines, error_lines, figure, inv,
    \* The invocations of _render_surface the server threads are running: for
    \* each thread the statement it is at, its arguments and its locals
    requests

zl_vars == <<zl_args, zvals, hvals, zonevals, zomin, zomax, zoneplot, zl_pc>>
files_vars == <<model_file, fs, files_ret>>
init_vars == <<init_args, plugin>>

app_vars == <<wellpath, surfacepaths, errorpaths, coords,
              fence, surface_lines, error_lines, figure, inv, requests>>

vars == <<zl_vars, files_vars, init_vars, app_vars>>

-----------------------------------------------------------------------------
(* Results of a Python call: a returned list, a returned None, or a raise. *)

Returned(v) == [kind |-> "list", exc |-> "", value |-> v]
ReturnedNone == [kind |-> "None", exc |-> "", value |-> <<>>]
Raised(e) == [kind |-> "raise", exc |-> e, value |-> <<>>]
NotCalled == [kind |-> "pending", exc |-> "", value |-> <<>>]

Range(s) == {s[i] : i \in DOMAIN s}

-----------------------------------------------------------------------------
(* The values the parts of the model that are not running are held at.     *)

NoGetter == [getter |-> "", result |-> NotCalled]

NoArgs == [surfacefiles |-> <<>>, surfacefiles_de |-> <<>>, wellfiles |-> <<>>,
           surfacenames |-> [given |-> FALSE, value |-> <<>>],
           wellnames |-> [given |-> FALSE, value |-> <<>>]]

NoInvocation == [triggered |-> <<>>, writes |-> <<>>, calls |-> <<>>]

\* Threads the server answers requests with.
NumThreads == 2
Threads == 1..NumThreads

\* Requests every thread answers before the model stops following it.
MaxRequests == 2

\* A thread that is running no invocation.
IdleRequest ==
    [pc |-> "idle", served |-> 0, triggered |-> <<>>, wellpath |-> <<>>, surfacepaths |-> <<>>,
     errorpaths |-> <<>>, coords |-> [drawn |-> FALSE, points |-> <<>>],
     own |-> <<>>, calls |-> <<>>, figure |-> <<>>]

NoRequests == [t \in Threads |-> IdleRequest]

-----------------------------------------------------------------------------
(* The plugin instance of the running application                           *)

\* Surfaces and wells the running plugin is configured with.
NumSurfaces == 2
NumWells == 2

surfacefiles == [i \in 1..NumSurfaces |-> <<"d_", i>>]
surfacefiles_de == [i \in 1..NumSurfaces |-> <<"de_", i>>]
wellfiles == [i \in 1..NumWells |-> <<"well", i>>]

\* polyline_points of the map before anything is drawn (None), and a drawn
\* polyline: a list of [lat, lon] points.
NoCoords == [drawn |-> FALSE, points |-> <<>>]
Drawn(points) == [drawn |-> TRUE, points |-> points]

Polylines == {<< <<1, 2>>, <<3, 4>> >>,
              << <<3, 4>>, <<1, 2>> >>,
              << <<1, 2>>, <<3, 4>>, <<5, 1>> >>}

\* well.get_fence_polyline(nextend=100, sampling=5) of xtgeo.Well(Path(wellpath))
WellFence(path) ==
    [source |-> "well", wellpath |-> path, nextend |-> 100, sampling |-> 5,
     points |-> <<>>]

\* get_fencespec(coords): poly.get_fence(asnumpy=True) of the polygon whose
\* rows take X_UTME from c[1] and Y_UTMN from c[0].
get_fencespec(points) ==
    [source |-> "polyline", wellpath |-> <<>>, nextend |-> 0, sampling |-> 0,
     points |-> [i \in 1..Len(points) |->
                    [X_UTME |-> points[i][2], Y_UTMN |-> points[i][1],
                     Z_TVDSS |-> 0, POLY_ID |-> 1, NAME |-> "polyline"]]]

\* figure={"displayModeBar": True} of the layout.
InitialFigure == [data |-> <<>>, layout |-> "displayModeBar"]

-----------------------------------------------------------------------------
(* plot_well_zonelog                                                       *)

\* Longest trajectory (number of samples) the zonelogs are enumerated to.
MaxLen == 5

\* The default of the zomin parameter, also the sentinel code of the logs.
DefaultZomin == -999

\* The default of the plugin's zonemin parameter.
DefaultZonemin == 1

\* The arguments held while no call of plot_well_zonelog is modelled.
IdleArgs == [columns |-> {}, series |-> <<>>, zvals |-> <<>>, hvals |-> <<>>,
             zomin |-> DefaultZomin]

ZoneCodes == {DefaultZomin, 0, 1, 2}

ZominChoices == {DefaultZomin, 0, DefaultZonemin}

zonelogname == "Zonelog"

color == <<"yellow", "orange", "green", "red", "grey">>

\* The trajectory's own columns: horizontal distance and depth of sample i
\* (1-based), one distinct value per sample.
Hlen(i) == 10 * (i - 1)
Tvd(i) == 1000 + 3 * i

SeriesMin(s) == CHOOSE m \in Range(s) : \A x \in Range(s) : m <= x
SeriesMax(s) == CHOOSE m \in Range(s) : \A x \in Range(s) : m >= x

\* Mutant of ClampZomin: the comparison reversed, which takes the smaller of
\* the two.
ClampZominReversed(zo, series) ==
    IF zo <= SeriesMin(series) THEN zo ELSE SeriesMin(series)

\* zomin if zomin >= int(df[zonelogname].min()) else int(df[zonelogname].min())
ClampZomin(zo, series) == IF zo >= SeriesMin(series) THEN zo ELSE SeriesMin(series)

\* np.where(zonevals[:-1] != zonevals[1:]): the ascending 0-based indices t
\* with zonevals[t] != zonevals[t + 1].
ZoneTransitions(zv) ==
    LET Differs(t) == zv[t + 1] # zv[t + 2]
    IN  SelectSeq([i \in 1..(Len(zv) - 1) |-> i - 1], Differs)

\* arr[idx] for an index array idx (0-based indices).
Take(arr, idx) == [j \in 1..Len(idx) |-> arr[idx[j] + 1]]

\* Mutant of NpInsert: every value is put after the element at its index
\* instead of before it.
NpInsertAfter(arr, idx, vals) ==
    LET m == Len(idx)
        Landing == {idx[j] + j + 1 : j \in 1..m}
    IN  [k \in 1..(Len(arr) + m) |->
            IF k \in Landing
            THEN vals[CHOOSE j \in 1..m : idx[j] + j + 1 = k]
            ELSE arr[k - Cardinality({p \in Landing : p < k})]]

\* np.insert(arr, idx, vals) for an ascending index array: vals[j] is put
\* before the element that has index idx[j] in arr, so it lands at index
\* idx[j] + j of the result.
NpInsert(arr, idx, vals) ==
    LET m == Len(idx)
        Landing == {idx[j] + j : j \in 1..m}
    IN  [k \in 1..(Len(arr) + m) |->
            IF k \in Landing
            THEN vals[CHOOSE j \in 1..m : idx[j] + j = k]
            ELSE arr[k - Cardinality({p \in Landing : p < k})]]

\* Mutant of Compressed: only the first run of the zone is kept.
CompressedFirstRun(vals, zv, zone) ==
    LET Kept(i) == /\ zv[i] = zone
                   /\ \A j \in 1..i : zv[j] # zone => \A l \in 1..j : zv[l] # zone
        keep == SelectSeq([i \in 1..Len(zv) |-> i], Kept)
    IN  [j \in 1..Len(keep) |-> vals[keep[j]]]

\* ma.masked_where(zv != zone, vals).compressed()
Compressed(vals, zv, zone) ==
    LET Kept(i) == zv[i] = zone
        keep == SelectSeq([i \in 1..Len(zv) |-> i], Kept)
    IN  [j \in 1..Len(keep) |-> vals[keep[j]]]

ZoneEntry(i, zone, zv, zs, hs) ==
    [x |-> Compressed(hs, zv, zone),
     y |-> Compressed(zs, zv, zone),
     color |-> color[i + 1],
     name |-> zone]

\* The loop over enumerate(range(zomin, zomax + 1)); color[i] raises
\* IndexError at the sixth zone.
ZonePlot(zmin, zmax, zv, zs, hs) ==
    LET n == IF zmax >= zmin THEN zmax - zmin + 1 ELSE 0
    IN  IF n > Len(color)
        THEN Raised("IndexError")
        ELSE Returned([k \in 1..n |-> ZoneEntry(k - 1, zmin + k - 1, zv, zs, hs)])

\* The zonelog of the worked example: two sentinel samples, then zones 0, 1, 2.
ExampleLog == <<DefaultZomin, DefaultZomin, 0, 0, 1, 1, 2>>

\* The zonelog columns the calls are made with: every log of at most MaxLen
\* samples, and the worked example.
Zonelogs == UNION {[1..n -> ZoneCodes] : n \in 0..MaxLen} \cup {ExampleLog}

ZlInit ==
    /\ \E s \in Zonelogs, zo \in ZominChoices, has \in BOOLEAN :
            zl_args = [columns |-> {"X_UTME", "Y_UTMN", "Z_TVDSS"}
                                    \cup (IF has THEN {zonelogname} ELSE {}),
                       series |-> IF has THEN s ELSE <<>>,
                       zvals |-> [i \in 1..Len(s) |-> Tvd(i)],
                       hvals |-> [i \in 1..Len(s) |-> Hlen(i)],
                       zomin |-> zo]
    /\ zvals = zl_args.zvals
    /\ hvals = zl_args.hvals
    /\ zomin = zl_args.zomin
    /\ zonevals = <<>>
    /\ zomax = 0
    /\ zoneplot = NotCalled
    /\ zl_pc = "call"
    /\ model_file = <<>>
    /\ fs = {}
    /\ files_ret = NoGetter
    /\ init_args = NoArgs
    /\ plugin = NotCalled
    /\ wellpath = wellfiles[1]
    /\ surfacepaths = surfacefiles
    /\ errorpaths = surfacefiles_de
    /\ coords = NoCoords
    /\ fence = WellFence(wellfiles[1])
    /\ surface_lines = <<>>
    /\ error_lines = <<>>
    /\ figure = InitialFigure
    /\ inv = NoInvocation
    /\ requests = NoRequests

\* `return` on a dataframe without the zonelog column.
ZlNoColumn ==
    /\ zl_pc = "call"
    /\ zonelogname \notin zl_args.columns
    /\ zoneplot' = ReturnedNone
    /\ zl_pc' = "done"
    /\ UNCHANGED <<zl_args, zvals, hvals, zonevals, zomin, zomax>>
    /\ UNCHANGED <<files_vars, init_vars, app_vars>>

\* int(df[zonelogname].min()) of an empty column: int(nan) raises.
ZlEmpty ==
    /\ zl_pc = "call"
    /\ zonelogname \in zl_args.columns
    /\ zl_args.series = <<>>
    /\ zoneplot' = Raised("ValueError")
    /\ zl_pc' = "done"
    /\ UNCHANGED <<zl_args, zvals, hvals, zonevals, zomin, zomax>>
    /\ UNCHANGED <<files_vars, init_vars, app_vars>>

ZlPlot ==
    /\ zl_pc = "call"
    /\ zonelogname \in zl_args.columns
    /\ zl_args.series # <<>>
    /\ LET series == zl_args.series
           transition == ZoneTransitions(series)
       IN  /\ zomin' = ClampZomin(zomin, series)
           /\ zomax' = SeriesMax(series)
           /\ zvals' = NpInsert(zvals, transition, Take(zvals, [j \in 1..Len(transition) |-> transition[j] + 1]))
           /\ hvals' = NpInsert(hvals, transition, Take(hvals, [j \in 1..Len(transition) |-> transition[j] + 1]))
           /\ zonevals' = NpInsert(series, transition, Take(series, transition))
           /\ zoneplot' = ZonePlot(zomin', zomax', zonevals', zvals', hvals')
    /\ zl_pc' = "done"
    /\ UNCHANGED zl_args
    /\ UNCHANGED <<files_vars, init_vars, app_vars>>

ZlNext == ZlNoColumn \/ ZlEmpty \/ ZlPlot

-----------------------------------------------------------------------------
(* parse_model_file: the surface file getters                              *)

\* Most <surface> elements a model file is enumerated with.
MaxSurfaces == 2

SurfaceNames == {"TopVolantis", "BaseVolantis"}

Prefixes == {"d_", "de_", "dr_", "dre_", "dt_", "dte_"}

\* os.path.join(basedir, "output", "surfaces", prefix + s + ".rxb"); the
\* file name is kept as its three parts.
RxbPath(prefix, s) == <<"output", "surfaces", <<prefix, s, ".rxb">> >>

\* The names of the <surface> elements, in document order.
extract_surface_names == [i \in 1..Len(model_file) |-> model_file[i].name]

\* [os.path.join(surface_dir, prefix + s + ".rxb") for s in surface_names]
SurfaceFileList(prefix) ==
    [i \in 1..Len(extract_surface_names) |-> RxbPath(prefix, extract_surface_names[i])]

isfile(path) == path \in fs

\* for path in files: if not os.path.isfile(path): <missing>; return files
RECURSIVE CheckFiles(_, _, _)
CheckFiles(files, i, missing) ==
    IF i > Len(files) THEN Returned(files)
    ELSE IF ~isfile(files[i]) THEN missing
    ELSE CheckFiles(files, i + 1, missing)

\* Mutant of get_surface_files: a missing file is skipped instead of raising.
get_surface_files_skipping ==
    LET Exists(path) == isfile(path)
    IN  Returned(SelectSeq(SurfaceFileList("d_"), Exists))

get_surface_files == CheckFiles(SurfaceFileList("d_"), 1, Raised("FileNotFoundError"))

get_surface_de_files == CheckFiles(SurfaceFileList("de_"), 1, ReturnedNone)

get_surface_dr_files == CheckFiles(SurfaceFileList("dr_"), 1, ReturnedNone)

get_surface_dre_files == CheckFiles(SurfaceFileList("dre_"), 1, ReturnedNone)

get_surface_dt_files == CheckFiles(SurfaceFileList("dt_"), 1, ReturnedNone)

\* Mutant of get_surface_dte_files: the existence check of the dt_ getter it
\* was copied from is left in place, on the dt_ files.
get_surface_dte_files_unchecked ==
    IF \E i \in 1..Len(SurfaceFileList("dt_")) : ~isfile(SurfaceFileList("dt_")[i])
    THEN ReturnedNone
    ELSE Returned(SurfaceFileList("dte_"))

get_surface_dte_files == CheckFiles(SurfaceFileList("dte_"), 1, ReturnedNone)

FilesInit ==
    /\ model_file \in UNION {[1..n -> [name : SurfaceNames]] : n \in 0..MaxSurfaces}
    /\ fs \in SUBSET {RxbPath(p, s) : p \in Prefixes, s \in SurfaceNames}
    /\ files_ret = NoGetter
    /\ zl_args = IdleArgs
    /\ zvals = <<>>
    /\ hvals = <<>>
    /\ zomin = DefaultZomin
    /\ zonevals = <<>>
    /\ zomax = 0
    /\ zoneplot = NotCalled
    /\ zl_pc = "idle"
    /\ init_args = NoArgs
    /\ plugin = NotCalled
    /\ wellpath = wellfiles[1]
    /\ surfacepaths = surfacefiles
    /\ errorpaths = surfacefiles_de
    /\ coords = NoCoords
    /\ fence = WellFence(wellfiles[1])
    /\ surface_lines = <<>>
    /\ error_lines = <<>>
    /\ figure = InitialFigure
    /\ inv = NoInvocation
    /\ requests = NoRequests

CallGetter(getter, result) ==
    /\ files_ret' = [getter |-> getter, result |-> result]
    /\ UNCHANGED <<model_file, fs>>
    /\ UNCHANGED <<zl_vars, init_vars, app_vars>>

GetSurfaceFiles == CallGetter("get_surface_files", get_surface_files)
GetSurfaceDeFiles == CallGetter("get_surface_de_files", get_surface_de_files)
GetSurfaceDrFiles == CallGetter("get_surface_dr_files", get_surface_dr_files)
GetSurfaceDreFiles == CallGetter("get_surface_dre_files", get_surface_dre_files)
GetSurfaceDtFiles == CallGetter("get_surface_dt_files", get_surface_dt_files)
GetSurfaceDteFiles == CallGetter("get_surface_dte_files", get_surface_dte_files)

FilesNext ==
    \/ GetSurfaceFiles
    \/ GetSurfaceDeFiles
    \/ GetSurfaceDrFiles
    \/ GetSurfaceDreFiles
    \/ GetSurfaceDtFiles
    \/ GetSurfaceDteFiles

SpecFiles == FilesInit /\ [][FilesNext]_vars

SpecZonelog == ZlInit /\ [][ZlNext]_vars

-----------------------------------------------------------------------------
(* Properties of the file getters, checked under SpecFiles.                *)

\* The prefix of the files each getter of an uncertainty variant is for.
VariantPrefix ==
    [g \in {"get_surface_de_files", "get_surface_dr_files", "get_surface_dre_files",
            "get_surface_dt_files", "get_surface_dte_files"} |->
        CASE g = "get_surface_de_files" -> "de_"
          [] g = "get_surface_dr_files" -> "dr_"
          [] g = "get_surface_dre_files" -> "dre_"
          [] g = "get_surface_dt_files" -> "dt_"
          [] g = "get_surface_dte_files" -> "dte_"]

\* The file of a variant for the i-th configured surface.
ConfiguredFile(prefix, i) == RxbPath(prefix, model_file[i].name)

\* C7: each getter of an uncertainty variant returns the complete list, one
\* path per configured surface in surface order, when every file of the
\* variant exists, and None when one is missing; never a partial list, never
\* an exception.
C7_VariantAllOrNone ==
    files_ret.getter \in DOMAIN VariantPrefix =>
        LET prefix == VariantPrefix[files_ret.getter]
            ret == files_ret.result
        IN  /\ ret.kind \in {"list", "None"}
            /\ ret.kind = "list" <=>
                    \A i \in 1..Len(model_file) : ConfiguredFile(prefix, i) \in fs
            /\ ret.kind = "list" =>
                /\ Len(ret.value) = Len(model_file)
                /\ \A i \in 1..Len(model_file) : ret.value[i] = ConfiguredFile(prefix, i)

C7_Witness ==
    /\ files_ret.getter = "get_surface_dte_files"
    /\ files_ret.result = ReturnedNone
    /\ Len(model_file) = 2
    /\ ConfiguredFile("dte_", 1) \in fs
    /\ ConfiguredFile("dte_", 2) \notin fs
    /\ ConfiguredFile("dt_", 2) \in fs

\* C8: get_surface_files raises FileNotFoundError when the d_ file of a
\* configured surface is missing, and otherwise returns one d_ path per
\* configured surface, in the order of the model file.
C8_BaseFilesMandatory ==
    files_ret.getter = "get_surface_files" =>
        LET ret == files_ret.result
        IN  IF \E i \in 1..Len(model_file) : ConfiguredFile("d_", i) \notin fs
            THEN ret = Raised("FileNotFoundError")
            ELSE /\ ret.kind = "list"
                 /\ Len(ret.value) = Len(model_file)
                 /\ \A i \in 1..Len(model_file) :
                        /\ ret.value[i] = ConfiguredFile("d_", i)
                        /\ ret.value[i] \in fs

C8_Witness ==
    /\ files_ret.getter = "get_surface_files"
    /\ files_ret.result = Raised("FileNotFoundError")
    /\ Len(model_file) = 2
    /\ ConfiguredFile("d_", 1) \in fs
    /\ ConfiguredFile("d_", 2) \notin fs

-----------------------------------------------------------------------------
(* HorizonUncertaintyViewer.__init__                                       *)

\* Longest lists of surface files and of well files the constructor is
\* called with.
MaxFiles == 3
MaxWells == 2

colors == <<"rgb(255,0,0)", "rgb(255,140,0)", "rgb(0,0,255)",
            "rgb(128,128,128)", "rgb(255,0,255)", "rgb(255,215,0)">>

\* colors[(i) % (n_colors)], i counted from 0.
get_color(i) == colors[(i % Len(colors)) + 1]

\* An optional list argument: None, or the list given.
NoneArg == [given |-> FALSE, value |-> <<>>]
ListArg(v) == [given |-> TRUE, value |-> v]

Instance(fields) == [kind |-> "instance", exc |-> "", value |-> fields]

\* The statements of __init__ in order, up to the first one that raises.
HuvInit(a) ==
    IF Len(a.surfacefiles) > Len(a.surfacefiles_de)
    THEN Raised("IndexError")
    ELSE IF a.surfacenames.given /\ Len(a.surfacenames.value) # Len(a.surfacefiles)
    THEN Raised("ValueError")
    ELSE IF a.wellnames.given /\ Len(a.wellnames.value) # Len(a.wellfiles)
    THEN Raised("ValueError")
    ELSE IF a.wellfiles = <<>>
    THEN Raised("IndexError")
    ELSE Instance(
        [surfacefiles |-> a.surfacefiles,
         surfacefiles_de |-> a.surfacefiles_de,
         surface_attributes |->
            [i \in 1..Len(a.surfacefiles) |->
                [path |-> a.surfacefiles[i], color |-> get_color(i - 1),
                 error_path |-> a.surfacefiles_de[i]]],
         surfacenames |-> IF a.surfacenames.given THEN a.surfacenames.value
                          ELSE [i \in 1..Len(a.surfacefiles) |-> <<"stem", a.surfacefiles[i]>>],
         wellfiles |-> a.wellfiles,
         wellnames |-> IF a.wellnames.given THEN a.wellnames.value
                       ELSE [i \in 1..Len(a.wellfiles) |-> <<"stem", a.wellfiles[i]>>],
         fence |-> WellFence(a.wellfiles[1])])

CtorInit ==
    /\ \E ns \in 1..MaxFiles, nde \in 0..MaxFiles, nw \in 0..MaxWells :
        \E sn \in {NoneArg} \cup {ListArg([i \in 1..k |-> <<"name", i>>]) : k \in 0..MaxFiles},
           wn \in {NoneArg} \cup {ListArg([i \in 1..k |-> <<"wellname", i>>]) : k \in 0..MaxWells} :
            init_args = [surfacefiles |-> [i \in 1..ns |-> <<"d_", i>>],
                         surfacefiles_de |-> [i \in 1..nde |-> <<"de_", i>>],
                         wellfiles |-> [i \in 1..nw |-> <<"well", i>>],
                         surfacenames |-> sn,
                         wellnames |-> wn]
    /\ plugin = NotCalled
    /\ model_file = <<>>
    /\ fs = {}
    /\ files_ret = NoGetter
    /\ zl_args = IdleArgs
    /\ zvals = <<>>
    /\ hvals = <<>>
    /\ zomin = DefaultZomin
    /\ zonevals = <<>>
    /\ zomax = 0
    /\ zoneplot = NotCalled
    /\ zl_pc = "idle"
    /\ wellpath = wellfiles[1]
    /\ surfacepaths = surfacefiles
    /\ errorpaths = surfacefiles_de
    /\ coords = NoCoords
    /\ fence = WellFence(wellfiles[1])
    /\ surface_lines = <<>>
    /\ error_lines = <<>>
    /\ figure = InitialFigure
    /\ inv = NoInvocation
    /\ requests = NoRequests

Construct ==
    /\ plugin = NotCalled
    /\ plugin' = HuvInit(init_args)
    /\ UNCHANGED init_args
    /\ UNCHANGED <<zl_vars, files_vars, app_vars>>

CtorNext == Construct

SpecInit == CtorInit /\ [][CtorNext]_vars

\* C6 (as claimed): when the two lists of surface files differ in length, in
\* either direction, the construction fails and leaves no instance.
C6_LengthMismatchFails ==
    (plugin # NotCalled
        /\ Len(init_args.surfacefiles) # Len(init_args.surfacefiles_de)) =>
            plugin.kind = "raise"

-----------------------------------------------------------------------------
(* The cross-section callback _render_surface                              *)

uid == "uid4"

\* self.ids(element): f"{element}-id-{self.uid}"
ids(element) == <<element, "-id-", uid>>

\* The prop_id dash reports for a property of a component: id + '.' + property.
PropId(element, property) == <<ids(element), ".", property>>

WellDropdownValue == PropId("well-dropdown", "value")
SurfacesChecklistValue == PropId("surfaces-checklist", "value")
ErrorChecklistValue == PropId("surfaces_de_checklist", "value")
PolylinePoints == PropId("map-view", "polyline_points")

\* ctx.triggered of a call no input triggered (the call made on page load).
NotTriggered == <<[prop_id |-> <<".">>]>>
TriggeredBy(prop_id) == <<[prop_id |-> prop_id]>>

\* get_path(paths): every entry replaced by Path(entry); a path is modelled by
\* the file it names, so the list keeps its entries and their order.
get_path(paths) == [i \in 1..Len(paths) |-> paths[i]]

\* The value of a checklist: the ticked options, in the order of the options.
Ticked(options, picked) ==
    LET IsPicked(o) == o \in picked
    IN  SelectSeq(options, IsPicked)

\* Mutant of FenceWrites: the test on the well dropdown is lost, so every
\* invocation the polyline did not trigger rebuilds the fence from the well.
FenceWritesUnconditional(triggered, wp, cs) ==
    IF triggered[1].prop_id = PolylinePoints
    THEN <<get_fencespec(cs.points)>>
    ELSE <<WellFence(wp)>>

\* Mutant of FenceWrites: the polyline branch tests the wrong property name.
FenceWritesNoPolyline(triggered, wp, cs) ==
    IF triggered[1].prop_id = WellDropdownValue
    THEN <<WellFence(wp)>>
    ELSE <<>>

\* Mutant of FenceWrites: the call nothing triggered is taken for a change of
\* the well dropdown, so loading the page rebuilds the fence from the well.
FenceWritesOnLoad(triggered, wp, cs) ==
    IF triggered[1].prop_id \in {WellDropdownValue, NotTriggered[1].prop_id}
    THEN <<WellFence(wp)>>
    ELSE IF triggered[1].prop_id = PolylinePoints
    THEN <<get_fencespec(cs.points)>>
    ELSE <<>>

\* The assignments to self.xsec.fence of one invocation, in order: the
\* if / elif on ctx.triggered[0]['prop_id'].
FenceWrites(triggered, wp, cs) ==
    IF triggered[1].prop_id = WellDropdownValue
    THEN <<WellFence(wp)>>
    ELSE IF triggered[1].prop_id = PolylinePoints
    THEN <<get_fencespec(cs.points)>>
    ELSE <<>>

\* HuvXsection.set_surface_lines / set_error_lines: one line per path, sampled
\* along the fence the assembler holds.
SetLines(paths, f) == [i \in 1..Len(paths) |-> [surface |-> paths[i], fence |-> f]]

\* HuvXsection.get_plotly_sfc_data: the series of the lines held.
GetPlotlySfcData(lines, errors) == [surfaces |-> lines, errors |-> errors]

\* The body of _render_surface for inputs (wp, sp, ep, cs).
RenderSurface(triggered, wp, sp, ep, cs) ==
    LET writes == FenceWrites(triggered, wp, cs)
        current == IF writes = <<>> THEN fence ELSE writes[Len(writes)]
    IN  /\ fence' = current
        /\ surface_lines' = SetLines(get_path(sp), current)
        /\ error_lines' = SetLines(get_path(ep), current)
        /\ figure' = [data |-> GetPlotlySfcData(surface_lines', error_lines'),
                      layout |-> "plotly_layout"]
        /\ inv' = [triggered |-> triggered,
                   writes |-> writes,
                   calls |-> <<[op |-> "set_surface_lines", fence |-> current],
                               [op |-> "set_error_lines", fence |-> current],
                               [op |-> "get_plotly_sfc_data", fence |-> current]>>]

Init ==
    /\ wellpath = wellfiles[1]
    /\ surfacepaths = surfacefiles
    /\ errorpaths = surfacefiles_de
    /\ coords = NoCoords
    /\ fence = WellFence(wellfiles[1])
    /\ surface_lines = <<>>
    /\ error_lines = <<>>
    /\ figure = InitialFigure
    /\ inv = NoInvocation
    /\ requests = NoRequests
    /\ init_args = NoArgs
    /\ plugin = NotCalled
    /\ model_file = <<>>
    /\ fs = {}
    /\ files_ret = NoGetter
    /\ zl_args = IdleArgs
    /\ zvals = <<>>
    /\ hvals = <<>>
    /\ zomin = DefaultZomin
    /\ zonevals = <<>>
    /\ zomax = 0
    /\ zoneplot = NotCalled
    /\ zl_pc = "idle"

\* The page is loaded: the inputs take the values of the layout and the
\* callback is called with nothing triggered.
LoadPage ==
    /\ wellpath' = wellfiles[1]
    /\ surfacepaths' = surfacefiles
    /\ errorpaths' = surfacefiles_de
    /\ coords' = NoCoords
    /\ RenderSurface(NotTriggered, wellpath', surfacepaths', errorpaths', coords')
    /\ UNCHANGED <<zl_vars, files_vars, init_vars, requests>>

\* A well is picked in the dropdown (clearable=False: always an option).
SelectWell ==
    /\ \E w \in Range(wellfiles) : wellpath' = w
    /\ UNCHANGED <<surfacepaths, errorpaths, coords>>
    /\ RenderSurface(TriggeredBy(WellDropdownValue), wellpath', surfacepaths, errorpaths, coords)
    /\ UNCHANGED <<zl_vars, files_vars, init_vars, requests>>

\* Surfaces are ticked or unticked in the checklist.
ToggleSurface ==
    /\ \E picked \in SUBSET Range(surfacefiles) :
        surfacepaths' = Ticked(surfacefiles, picked)
    /\ UNCHANGED <<wellpath, errorpaths, coords>>
    /\ RenderSurface(TriggeredBy(SurfacesChecklistValue), wellpath, surfacepaths', errorpaths, coords)
    /\ UNCHANGED <<zl_vars, files_vars, init_vars, requests>>

\* The "all" checkbox: update_surface_tickboxes sets the checklist to
\* self.surfacefiles or to [], which triggers the callback.
ToggleAllSurfaces ==
    /\ \E all_surfaces_checkbox \in {<<"True">>, <<>>} :
        surfacepaths' = IF all_surfaces_checkbox = <<"True">> THEN surfacefiles ELSE <<>>
    /\ UNCHANGED <<wellpath, errorpaths, coords>>
    /\ RenderSurface(TriggeredBy(SurfacesChecklistValue), wellpath, surfacepaths', errorpaths, coords)
    /\ UNCHANGED <<zl_vars, files_vars, init_vars, requests>>

\* Error surfaces are ticked or unticked in the checklist.
ToggleError ==
    /\ \E picked \in SUBSET Range(surfacefiles_de) :
        errorpaths' = Ticked(surfacefiles_de, picked)
    /\ UNCHANGED <<wellpath, surfacepaths, coords>>
    /\ RenderSurface(TriggeredBy(ErrorChecklistValue), wellpath, surfacepaths, errorpaths', coords)
    /\ UNCHANGED <<zl_vars, files_vars, init_vars, requests>>

\* A polyline is drawn on the map.
DrawPolyline ==
    /\ \E points \in Polylines : coords' = Drawn(points)
    /\ UNCHANGED <<wellpath, surfacepaths, errorpaths>>
    /\ RenderSurface(TriggeredBy(PolylinePoints), wellpath, surfacepaths, errorpaths, coords')
    /\ UNCHANGED <<zl_vars, files_vars, init_vars, requests>>

Next ==
    \/ LoadPage
    \/ SelectWell
    \/ ToggleSurface
    \/ ToggleAllSurfaces
    \/ ToggleError
    \/ DrawPolyline

Spec == Init /\ [][Next]_vars

-----------------------------------------------------------------------------
(* _render_surface statement by statement, on the threads of the server.   *)
(* Every thread answers one request at a time; all of them work on the one *)
(* self.xsec of the plugin instance, and nothing in the callback or in     *)
(* __init__ takes a lock. A statement is one step.                         *)

\* The arguments a browser sends with an interaction made on a freshly loaded
\* page: the input that changed, the other inputs at the values of the layout.
Arguments(triggered, wp, sp, ep, cs) ==
    [triggered |-> triggered, wellpath |-> wp, surfacepaths |-> sp,
     errorpaths |-> ep, coords |-> cs]

Interactions ==
    {Arguments(NotTriggered, wellfiles[1], surfacefiles, surfacefiles_de, NoCoords)}
    \cup {Arguments(TriggeredBy(WellDropdownValue), w, surfacefiles, surfacefiles_de, NoCoords) :
            w \in Range(wellfiles)}
    \cup {Arguments(TriggeredBy(SurfacesChecklistValue), wellfiles[1], sp, surfacefiles_de, NoCoords) :
            sp \in {surfacefiles, <<>>}}
    \cup {Arguments(TriggeredBy(ErrorChecklistValue), wellfiles[1], surfacefiles, <<>>, NoCoords)}
    \cup {Arguments(TriggeredBy(PolylinePoints), wellfiles[1], surfacefiles, surfacefiles_de, Drawn(points)) :
            points \in Polylines}

\* A request arrives and a free thread enters _render_surface:
\* ctx = dash.callback_context and the two get_path calls.
Request(t) ==
    /\ requests[t].pc \in {"idle", "returned"}
    /\ requests[t].served < MaxRequests
    /\ \E a \in Interactions :
        requests' = [requests EXCEPT ![t] =
            [pc |-> "trigger", served |-> requests[t].served + 1, triggered |-> a.triggered, wellpath |-> a.wellpath,
             surfacepaths |-> get_path(a.surfacepaths),
             errorpaths |-> get_path(a.errorpaths), coords |-> a.coords,
             own |-> <<>>, calls |-> <<>>, figure |-> <<>>]]
    /\ UNCHANGED <<wellpath, surfacepaths, errorpaths, coords,
                   fence, surface_lines, error_lines, figure, inv>>
    /\ UNCHANGED <<zl_vars, files_vars, init_vars>>

\* The if / elif on ctx.triggered[0]['prop_id']; own is the fence in force
\* when the thread leaves it.
TriggerHandling(t) ==
    LET r == requests[t]
        writes == FenceWrites(r.triggered, r.wellpath, r.coords)
        current == IF writes = <<>> THEN fence ELSE writes[Len(writes)]
    IN  /\ r.pc = "trigger"
        /\ fence' = current
        /\ requests' = [requests EXCEPT ![t].pc = "set_surface_lines",
                                        ![t].own = <<current>>]
        /\ UNCHANGED <<wellpath, surfacepaths, errorpaths, coords,
                       surface_lines, error_lines, figure, inv>>
        /\ UNCHANGED <<zl_vars, files_vars, init_vars>>

\* self.xsec.set_surface_lines(surfacepaths)
SetSurfaceLines(t) ==
    LET r == requests[t]
    IN  /\ r.pc = "set_surface_lines"
        /\ surface_lines' = SetLines(r.surfacepaths, fence)
        /\ requests' = [requests EXCEPT
                ![t].pc = "set_error_lines",
                ![t].calls = Append(@, [op |-> "set_surface_lines", fence |-> fence])]
        /\ UNCHANGED <<wellpath, surfacepaths, errorpaths, coords,
                       fence, error_lines, figure, inv>>
        /\ UNCHANGED <<zl_vars, files_vars, init_vars>>

\* self.xsec.set_error_lines(errorpaths)
SetErrorLines(t) ==
    LET r == requests[t]
    IN  /\ r.pc = "set_error_lines"
        /\ error_lines' = SetLines(r.errorpaths, fence)
        /\ requests' = [requests EXCEPT
                ![t].pc = "get_plotly_sfc_data",
                ![t].calls = Append(@, [op |-> "set_error_lines", fence |-> fence])]
        /\ UNCHANGED <<wellpath, surfacepaths, errorpaths, coords,
                       fence, surface_lines, figure, inv>>
        /\ UNCHANGED <<zl_vars, files_vars, init_vars>>

\* data = self.xsec.get_plotly_sfc_data(...), layout = self.xsec.plotly_layout
\* and the return of the figure.
ReturnFigure(t) ==
    LET r == requests[t]
    IN  /\ r.pc = "get_plotly_sfc_data"
        /\ requests' = [requests EXCEPT
                ![t].pc = "returned",
                ![t].calls = Append(@, [op |-> "get_plotly_sfc_data", fence |-> fence]),
                ![t].figure = <<[data |-> GetPlotlySfcData(surface_lines, error_lines),
                                 layout |-> "plotly_layout"]>>]
        /\ UNCHANGED <<wellpath, surfacepaths, errorpaths, coords,
                       fence, surface_lines, error_lines, figure, inv>>
        /\ UNCHANGED <<zl_vars, files_vars, init_vars>>

ThreadsInit ==
    /\ wellpath = wellfiles[1]
    /\ surfacepaths = surfacefiles
    /\ errorpaths = surfacefiles_de
    /\ coords = NoCoords
    /\ fence = WellFence(wellfiles[1])
    /\ surface_lines = <<>>
    /\ error_lines = <<>>
    /\ figure = InitialFigure
    /\ inv = NoInvocation
    /\ requests = NoRequests
    /\ init_args = NoArgs
    /\ plugin = NotCalled
    /\ model_file = <<>>
    /\ fs = {}
    /\ files_ret = NoGetter
    /\ zl_args = IdleArgs
    /\ zvals = <<>>
    /\ hvals = <<>>
    /\ zomin = DefaultZomin
    /\ zonevals = <<>>
    /\ zomax = 0
    /\ zoneplot = NotCalled
    /\ zl_pc = "idle"

ThreadsNext ==
    \E t \in Threads :
        \/ Request(t)
        \/ TriggerHandling(t)
        \/ SetSurfaceLines(t)
        \/ SetErrorLines(t)
        \/ ReturnFigure(t)

SpecThreads == ThreadsInit /\ [][ThreadsNext]_vars

-----------------------------------------------------------------------------
(* Properties of _render_surface, checked under Spec.                      *)

\* The property the last invocation reports first in ctx.triggered.
Invoked == inv.triggered # <<>>
Trigger == inv.triggered[1].prop_id

\* C1: an invocation triggered by the well dropdown or by the polyline
\* rebuilds the fence exactly once: from the selected well for the dropdown,
\* from the drawn coordinates for the polyline.
C1_OneFenceRebuild ==
    /\ (Invoked /\ Trigger = WellDropdownValue) =>
        /\ Len(inv.writes) = 1
        /\ fence = inv.writes[1]
        /\ fence.source = "well"
        /\ fence.wellpath = wellpath
    /\ (Invoked /\ Trigger = PolylinePoints) =>
        /\ Len(inv.writes) = 1
        /\ fence = inv.writes[1]
        /\ fence.source = "polyline"
        /\ Len(fence.points) = Len(coords.points)
        /\ \A i \in 1..Len(coords.points) :
            /\ fence.points[i].X_UTME = coords.points[i][2]
            /\ fence.points[i].Y_UTMN = coords.points[i][1]

C1_Witness ==
    /\ Invoked
    /\ Trigger = WellDropdownValue
    /\ wellpath = wellfiles[2]
    /\ fence = WellFence(wellfiles[2])
    /\ coords.drawn

\* C2: an invocation triggered by the surfaces checklist or by the error
\* checklist leaves the fence as it was and recomputes the cross-section
\* once, surface lines, then error lines, then the plot data, all on the fence
\* that was current when the invocation started.
C2_ChecklistKeepsFence ==
    [][(inv'.triggered # <<>>
        /\ inv'.triggered[1].prop_id \in {SurfacesChecklistValue, ErrorChecklistValue})
       => /\ fence' = fence
          /\ inv'.writes = <<>>
          /\ inv'.calls = <<[op |-> "set_surface_lines", fence |-> fence],
                            [op |-> "set_error_lines", fence |-> fence],
                            [op |-> "get_plotly_sfc_data", fence |-> fence]>>
          /\ \A i \in 1..Len(surface_lines') : surface_lines'[i].fence = fence
          /\ \A i \in 1..Len(error_lines') : error_lines'[i].fence = fence]_vars

C2_Witness ==
    /\ Invoked
    /\ Trigger = ErrorChecklistValue
    /\ fence.source = "polyline"
    /\ Len(error_lines) = 1
    /\ Len(surface_lines) = NumSurfaces

\* C12: through any sequence of invocations the fence is the one derived from
\* the most recent well-dropdown or polyline trigger, and the fence of the
\* first well file (nextend 100, sampling 5) while there has been none. Stated
\* step by step: the fence starts as the first well's; an invocation whose
\* first reported trigger is the well dropdown leaves the fence of the well
\* it was given, one whose first reported trigger is the polyline leaves the
\* fence of the coordinates it was given, and any other invocation (the
\* untriggered call on page load included) leaves the fence as it found it.
C12_FenceOfLastFenceTrigger ==
    /\ fence.source = "well"
    /\ fence.wellpath = wellfiles[1]
    /\ fence.nextend = 100
    /\ fence.sampling = 5
    /\ [][IF inv'.triggered[1].prop_id = WellDropdownValue
          THEN /\ fence'.source = "well"
               /\ fence'.wellpath = wellpath'
               /\ fence'.nextend = 100
               /\ fence'.sampling = 5
          ELSE IF inv'.triggered[1].prop_id = PolylinePoints
          THEN /\ fence'.source = "polyline"
               /\ fence'.points =
                    [i \in 1..Len(coords'.points) |->
                        [X_UTME |-> coords'.points[i][2], Y_UTMN |-> coords'.points[i][1],
                         Z_TVDSS |-> 0, POLY_ID |-> 1, NAME |-> "polyline"]]
          ELSE fence' = fence]_vars

\* The page is loaded again after a polyline was drawn and after the second
\* well was picked: the inputs are back at the layout's values, the fence is
\* still the polyline's or the second well's.
C12_Witness ==
    /\ Invoked
    /\ Trigger = NotTriggered[1].prop_id
    /\ wellpath = wellfiles[1]
    /\ coords = NoCoords
    /\ fence \in {get_fencespec(points) : points \in Polylines} \cup {WellFence(wellfiles[2])}
    /\ \A i \in 1..Len(surface_lines) : surface_lines[i].fence = fence

-----------------------------------------------------------------------------
(* Properties of concurrent invocations, checked under SpecThreads.        *)

HasReturned(t) == requests[t].pc = "returned"

\* The fences the lines of a figure were sampled along.
FencesOf(fig) ==
    {fig.data.surfaces[i].fence : i \in 1..Len(fig.data.surfaces)}
    \cup {fig.data.errors[i].fence : i \in 1..Len(fig.data.errors)}

\* C11: every invocation computes its surface lines, its error lines and the
\* plot data it returns from one fence, the fence in force when it left its
\* own trigger handling, whatever other invocations run at the same time.
C11_OneFencePerInvocation ==
    \A t \in Threads :
        /\ \A i \in 1..Len(requests[t].calls) :
            requests[t].calls[i].fence = requests[t].own[1]
        /\ HasReturned(t) => FencesOf(requests[t].figure[1]) \subseteq {requests[t].own[1]}

-----------------------------------------------------------------------------
(* Properties of plot_well_zonelog, checked under SpecZonelog.             *)

ZlDone == zl_pc = "done"
ZlListed == ZlDone /\ zoneplot.kind = "list"
HasZonelog == zonelogname \in zl_args.columns

\* How often sample i (1-based) of the trajectory occurs in a segment.
Occurrences(seg, i) ==
    Cardinality({j \in 1..Len(seg.x) : seg.x[j] = Hlen(i) /\ seg.y[j] = Tvd(i)})

\* The segment of the result that carries a zone code, as a set (empty or one).
SegmentsOf(zone) ==
    {k \in 1..Len(zoneplot.value) : zoneplot.value[k].name = zone}

\* The 1-based indices i at which the code changes from sample i to i + 1.
Changes(series) == {i \in 1..(Len(series) - 1) : series[i] # series[i + 1]}

\* C3 (as claimed): at every change of the zonelog code, the segment of the
\* outgoing code ends and the segment of the incoming code starts at the same
\* horizontal distance.
C3_BoundarySampleShared ==
    ZlListed =>
        \A i \in Changes(zl_args.series) :
            \A a \in SegmentsOf(zl_args.series[i]),
               b \in SegmentsOf(zl_args.series[i + 1]) :
                LET xa == zoneplot.value[a].x
                    xb == zoneplot.value[b].x
                IN  /\ xa # <<>>
                    /\ xb # <<>>
                    /\ xa[Len(xa)] = xb[1]

\* C4 (as claimed): the worked example gives codes clamped to 0 and segments
\* of 4, 3 and 2 samples for the codes 0, 1 and 2.
C4_ExampleAsClaimed ==
    (ZlDone /\ HasZonelog /\ zl_args.series = ExampleLog /\ zl_args.zomin = 0) =>
        /\ zoneplot.kind = "list"
        /\ \A k \in 1..Len(zonevals) : zonevals[k] >= 0
        /\ [k \in 1..Len(zoneplot.value) |->
                <<zoneplot.value[k].name, Len(zoneplot.value[k].x)>>]
           = <<(<<0, 4>>), (<<1, 3>>), (<<2, 2>>)>>

\* C4 (amended): on the worked example the codes stay as they are, the two
\* sentinel samples are in no segment, and the segments of the codes 0, 1 and 2
\* hold 3, 3 and 1 samples: samples (3, 5, 4), (5, 7, 6) and (7).
C4_ExampleSegments ==
    (ZlDone /\ HasZonelog /\ zl_args.series = ExampleLog /\ zl_args.zomin = 0) =>
        /\ zoneplot.kind = "list"
        /\ zonevals = <<-999, -999, -999, 0, 0, 0, 1, 1, 1, 2>>
        /\ [k \in 1..Len(zoneplot.value) |->
                <<zoneplot.value[k].name, zoneplot.value[k].x>>]
           = << <<0, <<Hlen(3), Hlen(5), Hlen(4)>> >>,
                <<1, <<Hlen(5), Hlen(7), Hlen(6)>> >>,
                <<2, <<Hlen(7)>> >> >>
        /\ \A k \in 1..Len(zoneplot.value) :
                Occurrences(zoneplot.value[k], 1) = 0
                /\ Occurrences(zoneplot.value[k], 2) = 0

C4_Witness ==
    /\ ZlListed
    /\ HasZonelog
    /\ zl_args.series = ExampleLog
    /\ zl_args.zomin = 0
    /\ Len(zoneplot.value) = 3

\* C5 (as claimed): a sample whose code is below the minimum zone code is
\* clipped up to it: it has an entry in the segment of the minimum zone code.
C5_ClippedIntoMinimumSegment ==
    ZlListed =>
        \A i \in 1..Len(zl_args.series) :
            zl_args.series[i] < zl_args.zomin =>
                \E k \in SegmentsOf(zl_args.zomin) :
                    Occurrences(zoneplot.value[k], i) >= 1

\* C5 (amended): the codes are never altered; the minimum zone code is raised
\* to the smallest code of the log when it lies below it; a sample whose code
\* is below the minimum zone code has no entry of its own in any segment, and
\* its position occurs only as the duplicated boundary point in the segment of
\* the preceding sample's code.
C5_BelowMinimumDropped ==
    ZlListed =>
        /\ zomin >= zl_args.zomin
        /\ \A i \in 1..Len(zl_args.series) : zomin = zl_args.zomin \/ zomin <= zl_args.series[i]
        /\ zomin = zl_args.zomin \/ zomin \in Range(zl_args.series)
        /\ \A k \in 1..Len(zoneplot.value) : zoneplot.value[k].name >= zomin
        /\ \A i \in 1..Len(zl_args.series) :
            zl_args.series[i] < zomin =>
                \A k \in 1..Len(zoneplot.value) :
                    Occurrences(zoneplot.value[k], i) =
                        IF i > 1 /\ zl_args.series[i - 1] = zoneplot.value[k].name
                        THEN 1 ELSE 0

C5_Witness ==
    /\ ZlListed
    /\ \E i \in 2..Len(zl_args.series) :
        /\ zl_args.series[i] < zomin
        /\ zl_args.series[i - 1] >= zomin
        /\ \E k \in SegmentsOf(zl_args.series[i - 1]) :
                Occurrences(zoneplot.value[k], i) = 1
    /\ \E i \in 1..Len(zl_args.series) :
        /\ zl_args.series[i] < zomin
        /\ \A k \in 1..Len(zoneplot.value) : Occurrences(zoneplot.value[k], i) = 0

\* C9 (as claimed): without the zonelog column the call returns an empty
\* sequence of segments and computes nothing else.
C9_EmptySequenceWithoutColumn ==
    (ZlDone /\ ~HasZonelog) =>
        /\ zoneplot = Returned(<<>>)
        /\ zvals = zl_args.zvals
        /\ hvals = zl_args.hvals
        /\ zomin = zl_args.zomin

\* The number of maximal runs of equal codes in a log.
NumRuns(series) == IF series = <<>> THEN 0 ELSE 1 + Cardinality(Changes(series))

\* C10 (as claimed, the part on the segments themselves): one segment per
\* maximal run of equal codes, so no segment without samples and as many
\* segments as runs. (The part on the order of the points inside a segment
\* fails as C3 does.)
C10_OneSegmentPerRun ==
    ZlListed =>
        /\ Len(zoneplot.value) = NumRuns(zl_args.series)
        /\ \A k \in 1..Len(zoneplot.value) : zoneplot.value[k].x # <<>>

\* The sample indices a segment is expected to list: the samples of the zone
\* in trajectory order, the sample after a change of code put before the last
\* sample of the run that ends there.
RECURSIVE ExpectedSamples(_, _, _)
ExpectedSamples(series, zone, i) ==
    IF i > Len(series) THEN <<>>
    ELSE (IF series[i] # zone THEN <<>>
          ELSE IF i < Len(series) /\ series[i + 1] # zone THEN <<i + 1, i>>
          ELSE <<i>>) \o ExpectedSamples(series, zone, i + 1)

\* C10 (amended): for a non-empty zonelog the call returns one segment per
\* integer code from the effective minimum (the larger of the minimum zone code
\* and the smallest code of the log) to the largest code of the log, in
\* ascending code order, when these are at most five codes, and raises
\* IndexError when they are more. The segment of a code that does not occur is
\* empty, the runs of a code that recurs share one segment, and each segment
\* lists its samples as ExpectedSamples gives them.
C10_OneSegmentPerCodeInRange ==
    (ZlDone /\ HasZonelog /\ zl_args.series # <<>>) =>
        LET series == zl_args.series
            least == CHOOSE c \in Range(series) : \A d \in Range(series) : c <= d
            hi == CHOOSE c \in Range(series) : \A d \in Range(series) : c >= d
            lo == IF zl_args.zomin > least THEN zl_args.zomin ELSE least
            n == IF hi >= lo THEN hi - lo + 1 ELSE 0
        IN  IF n > 5
            THEN zoneplot = Raised("IndexError")
            ELSE /\ zoneplot.kind = "list"
                 /\ Len(zoneplot.value) = n
                 /\ \A k \in 1..n :
                    LET seg == zoneplot.value[k]
                        want == ExpectedSamples(series, lo + k - 1, 1)
                    IN  /\ seg.name = lo + k - 1
                        /\ seg.x = [j \in 1..Len(want) |-> Hlen(want[j])]
                        /\ seg.y = [j \in 1..Len(want) |-> Tvd(want[j])]

C10_Witness ==
    /\ ZlListed
    /\ \E k \in 1..Len(zoneplot.value) : zoneplot.value[k].x = <<>>
    /\ \E i, j, l \in 1..Len(zl_args.series) :
        /\ i < j
        /\ j < l
        /\ zl_args.series[i] = zl_args.series[l]
        /\ zl_args.series[i] # zl_args.series[j]
        /\ zl_args.series[i] >= zomin
        /\ SegmentsOf(zl_args.series[i]) # {}

=============================================================================
